---- MODULE Spec2Model ----
(***************************************************************************)
(* State-machine model of mask_app.py: the PromptGUI session object, the   *)
(* SAM2 video predictor it drives (an external collaborator, modelled by   *)
(* the calls the session makes to it) and the directories it lists and     *)
(* writes.  One action per PromptGUI handler; every handler runs to        *)
(* completion (or to the exception that leaves it) in one step.            *)
(***************************************************************************)
EXTENDS Integers, Sequences, FiniteSets, TLC

\* ------------------------------------------------------------------ bounds
\* most pending prompt points kept before the model stops adding more
MaxPoints == 2
\* largest object id add_new_mask is allowed to reach
MaxMaskIdx == 1
\* most pending prompt points where propagation and export are explored in full
TrackPoints == 1
\* most files a directory may hold after an export into it, where the GUI is
\* explored (there the masks go into the image directories)
MaxFiles == 2

\* ------------------------------------------------------- file names, paths
\* A file name is the sequence of its "."-separated components:
\* "0.mask.png" is <<"0", "mask", "png">>.

\* every component that occurs, in str (code point) order
CompOrder == <<"0", "00001", "1", "JPG", "jpg", "mask", "notes", "png", "txt">>

CompRank(c) == CHOOSE k \in 1..Len(CompOrder) : CompOrder[k] = c

\* str.lower() on a component
Lower(c) == IF c = "JPG" THEN "jpg" ELSE c

\* a < b for two file names, as Python compares the strings: "." sorts below
\* every digit and letter, so the order is component-wise
RECURSIVE NameLess(_, _)
NameLess(a, b) ==
    IF a = <<>> THEN b # <<>>
    ELSE IF b = <<>> THEN FALSE
    ELSE IF Head(a) = Head(b) THEN NameLess(Tail(a), Tail(b))
    ELSE CompRank(Head(a)) < CompRank(Head(b))

\* sorted(names)
RECURSIVE sorted(_)
sorted(S) ==
    IF S = {} THEN <<>>
    ELSE LET m == CHOOSE x \in S : \A y \in S \ {x} : NameLess(x, y)
         IN  <<m>> \o sorted(S \ {m})

\* os.path.splitext(p)[-1] without its dot ("" when there is no extension)
splitext_ext(p) == IF Len(p) >= 2 THEN p[Len(p)] ELSE ""

isimage(p) == splitext_ext([k \in 1..Len(p) |-> Lower(p[k])]) \in {"png", "jpg", "jpeg"}

\* Path(img_path).stem
stem(p) == IF Len(p) >= 2 THEN SubSeq(p, 1, Len(p) - 1) ELSE p

\* f"{name}.mask.png"
mask_name(p) == stem(p) \o <<"mask", "png">>

\* the directories set_img_dir and save_masks_to_dir are called with
\* ("gone" and "out" do not exist when the session starts)
DirNames == {"A", "B", "gone"}
\* the directories loaded where prompting is explored in full
PromptDirs == {"A", "B"}
SaveDirs == {"out"}

\* the directories on disk before the session starts ("out" does not exist)
InitDisk == [d \in {"A", "B"} |->
                IF d = "A" THEN {<<"0", "png">>, <<"1", "png">>}
                ELSE {<<"0", "JPG">>, <<"notes", "txt">>}]

\* ------------------------------------------------------------ mask arrays
\* A numpy array is [shape, data]: data holds the elements in row-major order.
FrameShape == <<2, 2>>

\* what the predictor may yield for one frame, a list of per-object masks
\* (mask_logits[i] > 0.0, row-major): no object at all; one object covering
\* nothing; two objects covering one pixel each
FrameYields == { <<>>,
                 << <<FALSE, FALSE, FALSE, FALSE>> >>,
                 << <<TRUE, FALSE, FALSE, FALSE>>, <<FALSE, TRUE, FALSE, FALSE>> >> }

\* the one answer taken where prompting is explored in full
PromptYields == { << <<TRUE, FALSE, FALSE, FALSE>> >> }

\* a path under the dataset root, f"{root_dir}/{sub}/{seq_name}": root_dir is
\* the same in every path and is left out
path(sub, seq_name) == [sub |-> sub, seq |-> seq_name]
\* the value None of a text field and of the video dropdown
NoPath == [sub |-> "None", seq |-> "None"]
NoFile == <<>>

\* the value standing for "the object has no inference_state attribute"
Unset == [video_path |-> "unset", num_frames |-> 0]
\* the image None
None == [dir |-> "None", name |-> <<>>]

VARIABLES
    selected_points,   \* list of [j, i]
    selected_labels,   \* list of cur_label_val
    cur_label_val,     \* 1 or 0
    frame_index,
    image,             \* None or the path of the frame that was read
    cur_mask_idx,
    cur_masks,         \* dict, as a set of keys
    cur_logits,        \* dict, as a set of keys
    index_masks_all,
    color_masks_all,   \* list of arrays
    img_dir,
    img_paths,         \* list of [dir, name]
    inference_state,   \* Unset (no such attribute) or the predictor's session
    disk,              \* directory -> set of file names
    ghost,             \* history of the current model session
    tracked,           \* run_tracker has completed since the last load or reset
    yielded,           \* what the propagation that filled color_masks_all yielded
    last,              \* the last handler call: what it returned or raised, what it wrote
    \* the components of make_demo that handlers read or write
    seq_name_field,    \* "Sequence name"
    img_dir_field,     \* "Input directory"
    mask_dir_field,    \* "Path to save masks"
    vid_files_field,   \* the video file selected in "Video files"
    slider,            \* the value of the "Frame index" slider
    slider_max,        \* its maximum
    pending,           \* the components whose change event waits for its handler
    ran                \* handlers run since the last user interaction, it included

vars == <<selected_points, selected_labels, cur_label_val, frame_index, image,
          cur_mask_idx, cur_masks, cur_logits, index_masks_all, color_masks_all,
          img_dir, img_paths, inference_state, disk, ghost, tracked, yielded, last,
          seq_name_field, img_dir_field, mask_dir_field, vid_files_field, slider,
          slider_max, pending, ran>>

gui == <<seq_name_field, img_dir_field, mask_dir_field, vid_files_field, slider,
         slider_max, pending, ran>>

session == <<selected_points, selected_labels, cur_label_val, frame_index, image,
             cur_mask_idx, cur_masks, cur_logits, index_masks_all, color_masks_all,
             img_dir, img_paths>>

\* the record of a handler call
\* op: the handler; out: "ok", the message it returned or the exception it raised;
\* made: os.makedirs was called; writes: the paths iio.imwrite was called with,
\* in order; count: the number in the "Saved N masks" message; frame: the
\* frame_idx add_point was called with (-1 for every other handler)
Call(op, out) ==
    [op |-> op, out |-> out, made |-> FALSE, writes |-> <<>>, count |-> 0,
     frame |-> -1]

\* history of a model session that has just been created or reset:
\* first  = the first object id add_point passed to the predictor (-1: none yet)
\* passed = the largest object id add_new_mask has moved past (-1: none yet)
\* propagated = run_tracker has called propagate_in_video on it
FreshGhost == [first |-> -1, passed |-> -1, propagated |-> FALSE]

Init ==
    /\ selected_points = <<>>
    /\ selected_labels = <<>>
    /\ cur_label_val = 1
    /\ frame_index = 0
    /\ image = None
    /\ cur_mask_idx = 0
    /\ cur_masks = {}
    /\ cur_logits = {}
    /\ index_masks_all = <<>>
    /\ color_masks_all = <<>>
    /\ img_dir = ""
    /\ img_paths = <<>>
    /\ inference_state = Unset
    /\ disk = InitDisk
    /\ ghost = FreshGhost
    /\ tracked = FALSE
    /\ yielded = <<>>
    /\ last = Call("__init__", "ok")
    /\ seq_name_field = "None"
    /\ img_dir_field = NoPath
    /\ mask_dir_field = NoPath
    /\ vid_files_field = NoFile
    /\ slider = 0
    /\ slider_max = Len(img_paths) - 1
    /\ pending = {}
    /\ ran = 0

\* ---------------------------------------------------------------- numpy
\* (mask_logits[i] > 0.0) has shape (1, H, W); squeeze() drops the axes of size 1
squeeze(shape) ==
    LET RECURSIVE drop(_)
        drop(sh) == IF sh = <<>> THEN <<>>
                    ELSE IF Head(sh) = 1 THEN drop(Tail(sh))
                    ELSE <<Head(sh)>> \o drop(Tail(sh))
    IN  drop(shape)

bool_mask(m) == [shape |-> squeeze(<<1>> \o FrameShape), data |-> m]

\* np.any(bool_masks, axis=0): the list becomes an array with one more leading
\* axis; an empty list becomes an array of shape (0,), whose any() over axis 0
\* is the 0-d array False
np_any_axis0(bool_masks) ==
    IF Len(bool_masks) = 0
    THEN [shape |-> <<>>, data |-> <<FALSE>>]
    ELSE [shape |-> bool_masks[1].shape,
          data  |-> [p \in 1..Len(bool_masks[1].data) |->
                        \E k \in 1..Len(bool_masks) : bool_masks[k].data[p]]]

\* (~binary).astype(np.uint8) * 255
grayscale(binary) ==
    [shape |-> binary.shape,
     data  |-> [p \in 1..Len(binary.data) |-> IF ~binary.data[p] THEN 255 ELSE 0]]

\* the loop body of run_tracker: one frame's object masks to one stored mask
collapse(obj_masks) ==
    grayscale(np_any_axis0([k \in 1..Len(obj_masks) |-> bool_mask(obj_masks[k])]))

ndim(mask) == Len(mask.shape)

\* mask.any()
mask_any(mask) == \E p \in 1..Len(mask.data) : mask.data[p] # 0

\* ------------------------------------------------------------- handlers
\* clear_points with the second clear() left out
clear_points_body_points_only ==
    /\ selected_points' = <<>>
    /\ UNCHANGED selected_labels

clear_points_body ==
    /\ selected_points' = <<>>
    /\ selected_labels' = <<>>

clear_points ==
    /\ clear_points_body
    /\ last' = Call("clear_points", "ok")
    /\ UNCHANGED <<cur_label_val, frame_index, image, cur_mask_idx, cur_masks,
                   cur_logits, index_masks_all, color_masks_all, img_dir, img_paths,
                   inference_state, disk, ghost, tracked, yielded>>

Max(a, b) == IF a >= b THEN a ELSE b

\* add_new_mask with the call of clear_points left out
add_new_mask_keeps_points ==
    /\ cur_mask_idx' = cur_mask_idx + 1
    /\ ghost' = IF inference_state = Unset THEN ghost
                ELSE [ghost EXCEPT !.passed = Max(@, cur_mask_idx)]
    /\ last' = Call("add_new_mask", "ok")
    /\ UNCHANGED <<selected_points, selected_labels, cur_label_val, frame_index,
                   image, cur_masks, cur_logits, index_masks_all, color_masks_all,
                   img_dir, img_paths, inference_state, disk, tracked, yielded>>

add_new_mask ==
    /\ cur_mask_idx' = cur_mask_idx + 1
    /\ clear_points_body
    /\ ghost' = IF inference_state = Unset THEN ghost
                ELSE [ghost EXCEPT !.passed = Max(@, cur_mask_idx)]
    /\ last' = Call("add_new_mask", "ok")
    /\ UNCHANGED <<cur_label_val, frame_index, image, cur_masks, cur_logits,
                   index_masks_all, color_masks_all, img_dir, img_paths,
                   inference_state, disk, tracked, yielded>>

\* _clear_image with the reset of color_masks_all left out
_clear_image_keeps_masks ==
    /\ image' = None
    /\ cur_mask_idx' = 0
    /\ frame_index' = 0
    /\ cur_masks' = {}
    /\ cur_logits' = {}
    /\ index_masks_all' = <<>>
    /\ UNCHANGED color_masks_all

\* _clear_image with the reset of frame_index left out
_clear_image_keeps_frame_index ==
    /\ image' = None
    /\ cur_mask_idx' = 0
    /\ cur_masks' = {}
    /\ cur_logits' = {}
    /\ index_masks_all' = <<>>
    /\ color_masks_all' = <<>>
    /\ UNCHANGED frame_index

_clear_image ==
    /\ image' = None
    /\ cur_mask_idx' = 0
    /\ frame_index' = 0
    /\ cur_masks' = {}
    /\ cur_logits' = {}
    /\ index_masks_all' = <<>>
    /\ color_masks_all' = <<>>

\* self.sam_model.reset_state(self.inference_state): with no inference_state
\* attribute the argument's evaluation raises AttributeError
reset ==
    /\ _clear_image
    /\ tracked' = FALSE
    /\ yielded' = <<>>
    /\ IF inference_state = Unset
       THEN /\ last' = Call("reset", "AttributeError")
            /\ UNCHANGED ghost
       ELSE /\ last' = Call("reset", "ok")
            /\ ghost' = FreshGhost
    /\ UNCHANGED <<selected_points, selected_labels, cur_label_val, img_dir,
                   img_paths, inference_state, disk>>

\* [f"{img_dir}/{p}" for p in sorted(os.listdir(img_dir)) if isimage(p)]
list_images(d, names) ==
    LET srt == sorted(names)
        RECURSIVE keep(_)
        keep(k) == IF k > Len(srt) THEN <<>>
                   ELSE IF isimage(srt[k])
                        THEN <<[dir |-> d, name |-> srt[k]]>> \o keep(k + 1)
                        ELSE keep(k + 1)
    IN  keep(1)

\* os.listdir raises FileNotFoundError after _clear_image and the assignment
\* of img_dir have taken place
set_img_dir(d) ==
    /\ _clear_image
    /\ tracked' = FALSE
    /\ yielded' = <<>>
    /\ img_dir' = d
    /\ IF d \in DOMAIN disk
       THEN /\ img_paths' = list_images(d, disk[d])
            /\ last' = Call("set_img_dir", "ok")
       ELSE /\ UNCHANGED img_paths
            /\ last' = Call("set_img_dir", "FileNotFoundError")
    /\ UNCHANGED <<selected_points, selected_labels, cur_label_val,
                   inference_state, disk, ghost>>

\* set_input_image with an out-of-range index moved to the nearest valid one
set_input_image_clamped(i) ==
    /\ IF Len(img_paths) = 0
       THEN UNCHANGED <<selected_points, selected_labels, frame_index, image>>
       ELSE LET c == IF i < 0 THEN 0
                     ELSE IF i >= Len(img_paths) THEN Len(img_paths) - 1 ELSE i
            IN  /\ clear_points_body
                /\ frame_index' = c
                /\ image' = img_paths[c + 1]
    /\ last' = Call("set_input_image", "ok")
    /\ UNCHANGED <<cur_label_val, cur_mask_idx, cur_masks, cur_logits,
                   index_masks_all, color_masks_all, img_dir, img_paths,
                   inference_state, disk, ghost, tracked, yielded>>

\* i is 0-based, as in the code; img_paths[i] is img_paths[i + 1] here
set_input_image(i) ==
    /\ IF i < 0 \/ i >= Len(img_paths)
       THEN UNCHANGED <<selected_points, selected_labels, frame_index, image>>
       ELSE /\ clear_points_body
            /\ frame_index' = i
            /\ image' = img_paths[i + 1]
    /\ last' = Call("set_input_image", "ok")
    /\ UNCHANGED <<cur_label_val, cur_mask_idx, cur_masks, cur_logits,
                   index_masks_all, color_masks_all, img_dir, img_paths,
                   inference_state, disk, ghost, tracked, yielded>>

\* sam_model.init_state(video_path): the predictor loads the frames of the
\* directory; it raises when there is no such directory or no frame in it
init_state_ok(d) == d \in DOMAIN disk /\ list_images(d, disk[d]) # <<>>

get_sam_features ==
    /\ IF init_state_ok(img_dir)
       THEN /\ inference_state' = [video_path |-> img_dir,
                                   num_frames |-> Len(list_images(img_dir, disk[img_dir]))]
            /\ ghost' = FreshGhost
            /\ last' = Call("get_sam_features", "ok")
       ELSE /\ UNCHANGED <<inference_state, ghost>>
            /\ last' = Call("get_sam_features", "AdapterError")
    /\ UNCHANGED <<session, disk, tracked, yielded>>

set_positive ==
    /\ cur_label_val' = 1
    /\ last' = Call("set_positive", "ok")
    /\ UNCHANGED <<selected_points, selected_labels, frame_index, image,
                   cur_mask_idx, cur_masks, cur_logits, index_masks_all,
                   color_masks_all, img_dir, img_paths, inference_state, disk,
                   ghost, tracked, yielded>>

set_negative ==
    /\ cur_label_val' = 0
    /\ last' = Call("set_negative", "ok")
    /\ UNCHANGED <<selected_points, selected_labels, frame_index, image,
                   cur_mask_idx, cur_masks, cur_logits, index_masks_all,
                   color_masks_all, img_dir, img_paths, inference_state, disk,
                   ghost, tracked, yielded>>

\* the clicks (row i, column j) and the frame indices the GUI may hand over
Clicks == {<<0, 1>>}
FrameInputs == {0, 1}
IndexInputs == {-1, 0, 1, 2}

\* what add_new_points_or_box may do: answer with masks for at least one
\* object, answer with none (make_index_mask then fails its assert), or raise
PredictorOutcomes == {"ok", "AssertionError", "AdapterError"}

\* self.selected_points.append([j, i]); self.selected_labels.append(self.cur_label_val)
add_point_append(i, j) ==
    /\ selected_points' = Append(selected_points, <<j, i>>)
    /\ selected_labels' = Append(selected_labels, cur_label_val)

add_point(frame_idx, i, j) ==
    /\ add_point_append(i, j)
    /\ IF inference_state = Unset
       THEN /\ last' = [Call("add_point", "AttributeError") EXCEPT !.frame = frame_idx]
            /\ UNCHANGED ghost
       ELSE /\ \E out \in PredictorOutcomes :
                 last' = [Call("add_point", out) EXCEPT !.frame = frame_idx]
            /\ ghost' = IF ghost.first = -1
                        THEN [ghost EXCEPT !.first = cur_mask_idx]
                        ELSE ghost
    /\ UNCHANGED <<cur_label_val, frame_index, image, cur_mask_idx, cur_masks,
                   cur_logits, index_masks_all, color_masks_all, img_dir, img_paths,
                   inference_state, disk, tracked, yielded>>

\* what propagate_in_video may yield for a session of n frames when each
\* frame's answer is drawn from Y: every frame once, in increasing frame-index
\* order (frame_idx is 0-based)
Propagations(n, Y) ==
    { [k \in 1..n |-> [frame_idx |-> k - 1, masks |-> ys[k]]] : ys \in [1..n -> Y] }

\* video_masks[frame_idx] = grayscale for every yielded item, then
\* [video_masks[i] for i in sorted(video_masks)]
stored_masks(ys) ==
    LET keys == { ys[k].frame_idx : k \in 1..Len(ys) }
        video_masks == [f \in keys |->
            LET k == CHOOSE q \in 1..Len(ys) :
                        /\ ys[q].frame_idx = f
                        /\ \A r \in q + 1..Len(ys) : ys[r].frame_idx # f
            IN  collapse(ys[k].masks)]
        RECURSIVE in_order(_)
        in_order(S) ==
            IF S = {} THEN <<>>
            ELSE LET m == CHOOSE x \in S : \A y \in S : x <= y
                 IN  <<video_masks[m]>> \o in_order(S \ {m})
    IN  in_order(keys)

run_tracker(Y) ==
    \/ /\ inference_state = Unset
       /\ last' = Call("run_tracker", "AttributeError")
       /\ UNCHANGED <<session, inference_state, disk, ghost, tracked, yielded>>
    \/ /\ inference_state # Unset
       /\ last' = Call("run_tracker", "AdapterError")
       /\ ghost' = [ghost EXCEPT !.propagated = TRUE]
       /\ UNCHANGED <<session, inference_state, disk, tracked, yielded>>
    \/ /\ inference_state # Unset
       /\ \E ys \in Propagations(inference_state.num_frames, Y) :
            /\ color_masks_all' = stored_masks(ys)
            /\ yielded' = ys
       /\ tracked' = TRUE
       /\ ghost' = [ghost EXCEPT !.propagated = TRUE]
       /\ last' = Call("run_tracker", "ok")
       /\ UNCHANGED <<selected_points, selected_labels, cur_label_val, frame_index,
                      image, cur_mask_idx, cur_masks, cur_logits, index_masks_all,
                      img_dir, img_paths, inference_state, disk>>

Min(a, b) == IF a <= b THEN a ELSE b

\* not masks or not isinstance(masks, list)
no_masks(masks) == Len(masks) = 0

\* not any(mask.any() for mask in masks)
all_empty(masks) == ~ \E k \in 1..Len(masks) : mask_any(masks[k])

\* the loop over zip(self.img_paths, masks): the index of the first pair whose
\* mask is not 2-D (the ValueError), or one past the last pair
first_bad(paths, masks) ==
    LET n == Min(Len(paths), Len(masks))
    IN  IF \E k \in 1..n : ndim(masks[k]) # 2
        THEN CHOOSE k \in 1..n : /\ ndim(masks[k]) # 2
                                 /\ \A q \in 1..k - 1 : ndim(masks[q]) = 2
        ELSE n + 1

\* the paths the loop writes before it ends or raises
export_writes(output_dir) ==
    [k \in 1..first_bad(img_paths, color_masks_all) - 1 |->
        [dir |-> output_dir, name |-> mask_name(img_paths[k].name)]]

\* the files of output_dir after os.makedirs and the loop
export_files(output_dir) ==
    (IF output_dir \in DOMAIN disk THEN disk[output_dir] ELSE {})
        \cup { export_writes(output_dir)[k].name : k \in 1..Len(export_writes(output_dir)) }

save_masks_to_dir(output_dir) ==
    LET masks == color_masks_all IN
    IF no_masks(masks)
    THEN /\ last' = Call("save_masks_to_dir", "NoMasks")
         /\ UNCHANGED <<session, inference_state, disk, ghost, tracked, yielded>>
    ELSE IF all_empty(masks)
    THEN /\ last' = Call("save_masks_to_dir", "AllEmpty")
         /\ UNCHANGED <<session, inference_state, disk, ghost, tracked, yielded>>
    ELSE LET raised == first_bad(img_paths, masks) <= Min(Len(img_paths), Len(masks))
         IN  /\ disk' = [d \in DOMAIN disk \cup {output_dir} |->
                            IF d = output_dir THEN export_files(output_dir) ELSE disk[d]]
             /\ last' = [op |-> "save_masks_to_dir",
                         out |-> IF raised THEN "ValueError" ELSE "Saved",
                         made |-> TRUE,
                         writes |-> export_writes(output_dir),
                         count |-> IF raised THEN 0 ELSE Len(masks),
                         frame |-> -1]
             /\ UNCHANGED <<session, inference_state, ghost, tracked, yielded>>

\* ------------------------------------------------------ specifications
\* a PromptGUI method called on its own: no component of the GUI takes part
call(handler) == handler /\ UNCHANGED gui

\* The handlers the GUI can invoke, in any order, with the predictor's
\* answers to propagation drawn from Y and the unbounded growth cut off:
\* at most maxPts pending points, object ids up to maxIdx, directories
\* loaded from D.
NextWith(maxPts, maxIdx, D, Y) ==
    \/ call(clear_points)
    \/ cur_mask_idx < maxIdx /\ call(add_new_mask)
    \/ call(reset)
    \/ \E d \in D : call(set_img_dir(d))
    \/ \E i \in IndexInputs : call(set_input_image(i))
    \/ call(get_sam_features)
    \/ call(set_positive)
    \/ call(set_negative)
    \/ \E f \in FrameInputs, c \in Clicks :
          Len(selected_points) < maxPts /\ call(add_point(f, c[1], c[2]))
    \/ call(run_tracker(Y))
    \/ \E d \in SaveDirs : call(save_masks_to_dir(d))

\* prompting in full, propagation with one answer per frame
Next == NextWith(MaxPoints, MaxMaskIdx, PromptDirs, PromptYields)

Spec == Init /\ [][Next]_vars

\* propagation and export in full, prompting cut short
NextTrack == NextWith(TrackPoints, MaxMaskIdx, DirNames, FrameYields)

SpecTrack == Init /\ [][NextTrack]_vars

\* ------------------------------------------------------------- make_demo
\* The text fields the user can type into keep the values make_demo was
\* given: its defaults.
img_name_field == "images"
mask_name_field == "images"

\* listdir(vid_root) and listdir(img_root) when the GUI is built: the choices
\* of the two dropdowns
vid_files == { <<"gone", "mp4">> }
img_dirs == DOMAIN InitDisk

\* the frames ffmpeg leaves in out_dir (%05d.png): a clip of one frame
FfmpegFrames == { { <<"00001", "png">> } }

\* os.path.splitext(seq_file)[0], for a file name with one extension
splitext_root(seq_file) == seq_file[1]

\* the directories of disk are those under f"{root_dir}/images", each under
\* its last path component
dir_of(p) == p.seq

get_mask_dir(sub, seq_name) == path(sub, seq_name)

\* a component whose value a handler's output replaced fires its change
\* event when the value differs from the one it had
changed(name, old, new) == IF old # new THEN {name} ELSE {}

\* vid_files_field.select
select_video(seq_file) ==
    /\ pending = {}
    /\ vid_files_field' = seq_file
    /\ seq_name_field' = splitext_root(seq_file)
    /\ pending' = changed("seq_name_field", seq_name_field, seq_name_field')
    /\ ran' = 1
    /\ last' = Call("select_video", "ok")
    /\ UNCHANGED <<session, inference_state, disk, ghost, tracked, yielded,
                   img_dir_field, mask_dir_field, slider, slider_max>>

\* img_dirs_field.select
select_image_dir(seq_name) ==
    /\ pending = {}
    /\ seq_name_field' = seq_name
    /\ img_dir_field' = path(img_name_field, seq_name)
    /\ pending' = changed("seq_name_field", seq_name_field, seq_name_field')
                    \cup changed("img_dir_field", img_dir_field, img_dir_field')
    /\ ran' = 1
    /\ last' = Call("select_image_dir", "ok")
    /\ UNCHANGED <<session, inference_state, disk, ghost, tracked, yielded,
                   mask_dir_field, vid_files_field, slider, slider_max>>

\* extract_button.click: with no video selected os.path.splitext(None) raises
\* TypeError; otherwise os.makedirs(out_dir, exist_ok=True), ffmpeg, and
\* out_dir goes to the "Input directory" field
extract_frames ==
    /\ pending = {}
    /\ ran' = 1
    /\ IF vid_files_field = NoFile
       THEN /\ last' = Call("extract_frames", "TypeError")
            /\ UNCHANGED <<disk, img_dir_field, pending>>
       ELSE LET seq_name == splitext_root(vid_files_field)
                out_dir == path(img_name_field, seq_name)
                d == dir_of(out_dir)
            IN  /\ \E frames \in FfmpegFrames :
                     disk' = [k \in DOMAIN disk \cup {d} |->
                                 IF k = d
                                 THEN (IF d \in DOMAIN disk THEN disk[d] ELSE {})
                                          \cup frames
                                 ELSE disk[k]]
                /\ img_dir_field' = out_dir
                /\ pending' = changed("img_dir_field", img_dir_field, out_dir)
                /\ last' = Call("extract_frames", "ok")
    /\ UNCHANGED <<session, inference_state, ghost, tracked, yielded,
                   seq_name_field, mask_dir_field, vid_files_field, slider,
                   slider_max>>

\* img_dir_field.change: set_img_dir on the directory named by the "Sequence
\* name" field; when it raises, no output is written
update_image_dir ==
    LET d == dir_of(path(img_name_field, seq_name_field)) IN
    /\ "img_dir_field" \in pending
    /\ set_img_dir(d)
    /\ ran' = ran + 1
    /\ IF d \in DOMAIN disk
       THEN /\ slider' = 0
            /\ slider_max' = Len(img_paths') - 1
            /\ pending' = (pending \ {"img_dir_field"})
                              \cup changed("frame_index", slider, 0)
       ELSE /\ UNCHANGED <<slider, slider_max>>
            /\ pending' = pending \ {"img_dir_field"}
    /\ UNCHANGED <<seq_name_field, img_dir_field, mask_dir_field, vid_files_field>>

\* seq_name_field.change
seq_name_field_change ==
    /\ "seq_name_field" \in pending
    /\ mask_dir_field' = get_mask_dir(mask_name_field, seq_name_field)
    /\ pending' = pending \ {"seq_name_field"}
    /\ ran' = ran + 1
    /\ last' = Call("get_mask_dir", "ok")
    /\ UNCHANGED <<session, inference_state, disk, ghost, tracked, yielded,
                   seq_name_field, img_dir_field, vid_files_field, slider,
                   slider_max>>

\* frame_index.change with a handler that writes the slider back, so that
\* its change event fires again
frame_index_change_rearmed ==
    /\ "frame_index" \in pending
    /\ set_input_image(slider)
    /\ ran' = ran + 1
    /\ UNCHANGED <<seq_name_field, img_dir_field, mask_dir_field, vid_files_field,
                   slider, slider_max, pending>>

\* frame_index.change after a handler has set the slider
frame_index_change ==
    /\ "frame_index" \in pending
    /\ set_input_image(slider)
    /\ pending' = pending \ {"frame_index"}
    /\ ran' = ran + 1
    /\ UNCHANGED <<seq_name_field, img_dir_field, mask_dir_field, vid_files_field,
                   slider, slider_max>>

\* frame_index.change after the user has moved the slider to v
slide(v) ==
    /\ pending = {}
    /\ v \in 0..slider_max
    /\ v # slider
    /\ slider' = v
    /\ set_input_image(v)
    /\ ran' = 1
    /\ UNCHANGED <<seq_name_field, img_dir_field, mask_dir_field, vid_files_field,
                   slider_max, pending>>

\* a control whose handler is a PromptGUI method and writes no component
\* that has a change handler
click(handler) ==
    /\ pending = {}
    /\ handler
    /\ ran' = 1
    /\ UNCHANGED <<seq_name_field, img_dir_field, mask_dir_field, vid_files_field,
                   slider, slider_max, pending>>

\* input_image.select: add_point with the value of the slider
get_select_coords(i, j) == click(add_point(slider, i, j))

\* save_button.click: with the field still None, os.makedirs(None) raises
\* TypeError once there is a mask to write
save_button_click ==
    IF mask_dir_field = NoPath /\ ~no_masks(color_masks_all)
                               /\ ~all_empty(color_masks_all)
    THEN click(/\ last' = Call("save_masks_to_dir", "TypeError")
               /\ UNCHANGED <<session, inference_state, disk, ghost, tracked,
                              yielded>>)
    ELSE click(save_masks_to_dir(dir_of(mask_dir_field)))

\* root_dir_field.submit and mask_name_field.submit: both write the mask path
update_root_paths ==
    /\ pending = {}
    /\ mask_dir_field' = get_mask_dir(mask_name_field, seq_name_field)
    /\ ran' = 1
    /\ last' = Call("update_root_paths", "ok")
    /\ UNCHANGED <<session, inference_state, disk, ghost, tracked, yielded,
                   seq_name_field, img_dir_field, vid_files_field, slider,
                   slider_max, pending>>

mask_name_field_submit ==
    /\ pending = {}
    /\ mask_dir_field' = get_mask_dir(mask_name_field, seq_name_field)
    /\ ran' = 1
    /\ last' = Call("get_mask_dir", "ok")
    /\ UNCHANGED <<session, inference_state, disk, ghost, tracked, yielded,
                   seq_name_field, img_dir_field, vid_files_field, slider,
                   slider_max, pending>>

\* The GUI: a user interaction is taken up when no change event waits, and
\* the change events a handler's outputs fire are handled one at a time, in
\* any order.  Exports are cut off when a directory would hold more than
\* MaxFiles files.
NextGUI ==
    \/ \E seq_file \in vid_files : select_video(seq_file)
    \/ \E seq_name \in img_dirs : select_image_dir(seq_name)
    \/ extract_frames
    \/ update_image_dir
    \/ seq_name_field_change
    \/ frame_index_change
    \/ \E v \in 0..slider_max : slide(v)
    \/ \E c \in Clicks :
          Len(selected_points) < TrackPoints /\ get_select_coords(c[1], c[2])
    \/ click(get_sam_features)
    \/ click(reset)
    \/ click(clear_points)
    \/ click(set_positive)
    \/ click(set_negative)
    \/ cur_mask_idx < MaxMaskIdx /\ click(add_new_mask)
    \/ click(run_tracker(PromptYields))
    \/ Cardinality(export_files(dir_of(mask_dir_field))) <= MaxFiles
          /\ save_button_click
    \/ update_root_paths
    \/ mask_name_field_submit

SpecGUI == Init /\ [][NextGUI]_vars

\* ------------------------------------------------------------- claims
\* the predictor was reached by the add_point call that has just ended
ReachedPredictor == last.op = "add_point" /\ last.out # "AttributeError"

\* some object mask the last propagation yielded covers some pixel
HasForeground ==
    \E k \in 1..Len(yielded) : \E o \in 1..Len(yielded[k].masks) :
        \E p \in 1..Len(yielded[k].masks[o]) : yielded[k].masks[o][p]

\* C1: in every reachable state the number of accumulated points equals the
\* number of accumulated labels, also after an add_point that failed inside
\* the predictor.
C1_PointsMatchLabels == Len(selected_points) = Len(selected_labels)

\* two points are pending and the add_point that added the second one failed
\* inside the predictor
C1_Witness ==
    /\ Len(selected_points) = 2
    /\ last.op = "add_point"
    /\ last.out = "AdapterError"

\* C2: on every model session the first object id add_point hands to the
\* predictor is 0, and no add_point is issued with an id that add_new_mask
\* has already moved past on that model session.
C2_ObjectIdsFromZeroNeverReused ==
    ReachedPredictor => (ghost.first = 0 /\ cur_mask_idx > ghost.passed)

\* C3: once run_tracker has completed and the mask list is populated, the
\* list has one entry per frame of the loaded sequence, entry i being the
\* mask of frame i.
C3_OneMaskPerLoadedFrame ==
    (tracked /\ color_masks_all # <<>>) =>
        /\ Len(color_masks_all) = Len(img_paths)
        /\ \A k \in 1..Len(color_masks_all) :
              /\ yielded[k].frame_idx = k - 1
              /\ color_masks_all[k] = collapse(yielded[k].masks)

\* C4: after propagation over a k-frame session the list has k entries, each
\* a 2-D grid of the frame's shape holding only 0 and 255, and the entry of a
\* frame for which the predictor yielded no object is all background.
C4_EveryStoredMaskIs2D ==
    (last.op = "run_tracker" /\ last.out = "ok") =>
        /\ Len(color_masks_all) = inference_state.num_frames
        /\ \A k \in 1..Len(color_masks_all) :
              /\ color_masks_all[k].shape = FrameShape
              /\ \A p \in 1..Len(color_masks_all[k].data) :
                    color_masks_all[k].data[p] \in {0, 255}
              /\ yielded[k].masks = <<>> =>
                    \A p \in 1..Len(color_masks_all[k].data) :
                        color_masks_all[k].data[p] = 0

\* C5: for every frame the predictor yielded objects for, a pixel of the
\* stored mask is 255 exactly when some object's mask covers it, and 0
\* otherwise.
C5_StoredMaskIsUnionOfObjects ==
    tracked =>
        \A k \in 1..Len(color_masks_all) :
            yielded[k].masks # <<>> =>
                \A p \in 1..Len(color_masks_all[k].data) :
                    /\ color_masks_all[k].data[p] \in {0, 255}
                    /\ color_masks_all[k].data[p] = 255
                          <=> \E o \in 1..Len(yielded[k].masks) : yielded[k].masks[o][p]

\* C6: after set_img_dir has returned, and after reset, the object id counter
\* is 0, there are no points, labels, per-object masks or sequence masks, and
\* reset has not raised.
C6_LoadAndResetLeaveEmptySession ==
    ((last.op = "set_img_dir" /\ last.out = "ok") \/ last.op = "reset") =>
        /\ cur_mask_idx = 0
        /\ selected_points = <<>>
        /\ selected_labels = <<>>
        /\ cur_masks = {}
        /\ color_masks_all = <<>>
        /\ last.op = "reset" => last.out = "ok"

\* C7: an add_point made before any directory has been loaded ends with the
\* explicit no-active-session error.
C7_AddPointBeforeLoadSaysNoSession ==
    (last.op = "add_point" /\ img_dir = "") => last.out = "NoActiveSession"

\* C8: a save_masks_to_dir made while no run_tracker has completed since the
\* last load or reset returns the nothing-to-export message, creates no
\* directory and writes no file.
C8_EmptyExportWritesNothing ==
    [][ (~tracked /\ last'.op = "save_masks_to_dir") =>
            /\ last'.out = "NoMasks"
            /\ ~last'.made
            /\ last'.writes = <<>>
            /\ disk' = disk ]_vars

\* a directory is loaded, nothing has been propagated, and an export has just
\* answered that there is nothing to export
C8_Witness ==
    /\ last.op = "save_masks_to_dir"
    /\ last.out = "NoMasks"
    /\ ~tracked
    /\ img_paths # <<>>

\* C9: an export after propagation refuses the batch, writing nothing, when
\* no frame has a pixel covered by an object, and does not refuse when some
\* frame has one.
C9_RefusesExactlyWhenNoForeground ==
    (last.op = "save_masks_to_dir" /\ tracked) =>
        /\ ~HasForeground => (last.out = "AllEmpty" /\ last.writes = <<>>)
        /\ HasForeground => last.out \notin {"AllEmpty", "NoMasks"}

\* C10: an export that does not refuse writes one file per frame of the
\* loaded sequence, in frame order, each named <frame-stem>.mask.png, and
\* reports as saved the number of files it wrote.
C10_ExportWritesOneFilePerFrame ==
    (last.op = "save_masks_to_dir" /\ last.out \notin {"AllEmpty", "NoMasks"}) =>
        /\ Len(last.writes) = Len(img_paths)
        /\ \A k \in 1..Len(last.writes) :
              last.writes[k].name = mask_name(img_paths[k].name)
        /\ last.count = Len(last.writes)

\* C11: an export that meets a stored mask which is not 2-D ends with a
\* status message returned to the GUI; no exception leaves save_masks_to_dir.
C11_ShapeMismatchIsReported ==
    last.op = "save_masks_to_dir" => last.out # "ValueError"

\* C12: for every integer i, set_input_image(i) on a non-empty loaded
\* sequence leaves the frame index at i when i is a valid index, at the last
\* valid index when i is too large and at 0 when i is negative, and leaves
\* no pending point or label.
C12_SetInputImageClamps ==
    [][ \A i \in IndexInputs :
            (img_paths # <<>> /\ set_input_image(i)) =>
                /\ frame_index' = (IF i < 0 THEN 0
                                   ELSE IF i >= Len(img_paths) THEN Len(img_paths) - 1
                                   ELSE i)
                /\ selected_points' = <<>>
                /\ selected_labels' = <<>> ]_vars

\* C12 as the code has it: a valid index becomes the frame index and clears
\* the pending points and labels; an index out of range is ignored, leaving
\* the frame index, the image and the pending points and labels as they were.
C12_SetInputImageIgnoresOutOfRange ==
    [][ \A i \in IndexInputs :
            (img_paths # <<>> /\ set_input_image(i)) =>
                IF 0 <= i /\ i < Len(img_paths)
                THEN /\ frame_index' = i
                     /\ image' = img_paths[i + 1]
                     /\ selected_points' = <<>>
                     /\ selected_labels' = <<>>
                ELSE UNCHANGED <<frame_index, image, selected_points,
                                 selected_labels>> ]_vars

\* frame 1 of a loaded sequence is selected, and a set_input_image call has
\* returned with points still pending: its index was out of range
C12_Witness ==
    /\ last.op = "set_input_image"
    /\ img_paths # <<>>
    /\ frame_index = 1
    /\ selected_points # <<>>

\* C14: add_new_mask raises the object id counter by exactly one, leaves no
\* pending point or label, and leaves the frame index, the loaded sequence,
\* the point polarity, the current masks and the sequence masks as they were.
C14_AddNewMaskOnlyAdvancesCounter ==
    [][ last'.op = "add_new_mask" =>
            /\ cur_mask_idx' = cur_mask_idx + 1
            /\ selected_points' = <<>>
            /\ selected_labels' = <<>>
            /\ UNCHANGED <<frame_index, image, img_dir, img_paths, cur_label_val,
                           cur_masks, cur_logits, index_masks_all,
                           color_masks_all>> ]_vars

\* add_new_mask has just run on a session with frame 1 selected, negative
\* polarity and sequence masks stored, all of which are still there
C14_Witness ==
    /\ last.op = "add_new_mask"
    /\ cur_mask_idx = 1
    /\ selected_points = <<>>
    /\ frame_index = 1
    /\ cur_label_val = 0
    /\ color_masks_all # <<>>

\* C16: on any one model session run_tracker does not call propagate_in_video
\* a second time unless the model session has been reset in between, and
\* does not call it when there is no model session.
C16_PropagateOncePerReset ==
    [][ (last'.op = "run_tracker" /\ last'.out # "AttributeError") =>
            /\ inference_state # Unset
            /\ ~ghost.propagated ]_vars

\* C17: whenever add_point or run_tracker reaches the predictor, the model
\* session it hands over was initialised on the directory that is currently
\* loaded: the directory of the last init_state equals img_dir.
C17_AdapterSessionIsOnLoadedDir ==
    (last.op \in {"add_point", "run_tracker"} /\ last.out # "AttributeError") =>
        inference_state.video_path = img_dir

\* C18: an add_point that raises, for want of a model session or inside the
\* predictor, leaves the points, the labels, the object id counter, the
\* frame index and the current masks as they were before the call.
C18_FailedAddPointChangesNothing ==
    [][ (last'.op = "add_point" /\ last'.out # "ok") =>
            UNCHANGED <<selected_points, selected_labels, cur_mask_idx,
                        frame_index, cur_masks, cur_logits>> ]_vars

\* C13: in every reachable state of the GUI and the session, also after a
\* reset and after a new directory has been loaded, the frame index that an
\* add_point reaching the predictor was called with is the session's
\* frame_index.
C13_AddPointIsForCurrentFrame ==
    ReachedPredictor => last.frame = frame_index

\* C15: a single user interaction makes exactly one registered handler run;
\* no handler runs as a consequence of what that handler wrote.
C15_OneHandlerPerInteraction == ran <= 1

\* the handlers wired to a change event
ChangeHandlers == {"set_img_dir", "get_mask_dir", "set_input_image"}

\* C15 as the code has it: a user interaction runs one registered handler
\* directly; the handlers wired to the change events of the fields it wrote
\* (update_image_dir, get_mask_dir, set_input_image) then run as well, one at
\* a time and at most three of them; only a handler of the two dropdowns, of
\* the extract button or of a change event leaves a change event waiting.
C15_ChangeHandlersFollow ==
    /\ ran <= 4
    /\ ran >= 2 => last.op \in ChangeHandlers
    /\ pending # {} =>
          last.op \in {"select_video", "select_image_dir", "extract_frames"}
                          \cup ChangeHandlers

\* the fourth handler of one interaction has run: selecting a directory ran
\* select_image_dir, get_mask_dir, update_image_dir and then set_input_image
C15_Witness ==
    /\ ran = 4
    /\ last.op = "set_input_image"
    /\ pending = {}

\* C19: the directory update_image_dir loads is the one in the "Input
\* directory" field whose change made it run, and once the change events
\* are handled the mask path is built from the sequence name of the loaded
\* directory.
C19_LoadedDirIsInputDirField ==
    /\ last.op = "set_img_dir" => path(img_name_field, img_dir) = img_dir_field
    /\ (pending = {} /\ img_dir # "") =>
          mask_dir_field = get_mask_dir(mask_name_field, img_dir)

\* C20: with the default directory names, loading a directory, exporting
\* its masks and loading the same directory again yields the same list of
\* frame paths: an export does not change what loading the loaded directory
\* yields.
C20_ExportKeepsFrameList ==
    [][ ( /\ last'.op = "save_masks_to_dir"
          /\ img_dir \in DOMAIN disk
          /\ img_paths = list_images(img_dir, disk[img_dir]) ) =>
            list_images(img_dir, disk'[img_dir]) = img_paths ]_vars

\* C21: in every reachable state frame_index is 0 or a valid index into the
\* loaded frame sequence, and it is a valid index whenever the sequence is
\* not empty, whatever the order of set_img_dir on sequences of different
\* lengths, set_input_image with any integer and reset.
C21_FrameIndexIsZeroOrValid ==
    /\ frame_index = 0 \/ (0 <= frame_index /\ frame_index < Len(img_paths))
    /\ img_paths # <<>> => (0 <= frame_index /\ frame_index < Len(img_paths))

\* frame 1 of the two-frame sequence is selected, and a set_input_image with
\* an index out of range has returned since, leaving the pending point
C21_Witness ==
    /\ last.op = "set_input_image"
    /\ Len(img_paths) = 2
    /\ frame_index = 1
    /\ Len(selected_points) = 1

====
